---- MODULE Spec2Model ----
(***************************************************************************)
(* Lattice-chat: the conversation graph store (zustand store with          *)
(* sessions, canvases, exchange nodes and edges), its streaming state,     *)
(* and the submit flows of the canvas that drive the store through         *)
(* useAIChat.streamMessage.                                                *)
(*                                                                         *)
(* Texts are sequences of one-character strings, '' is <<>>.  The          *)
(* JavaScript value undefined/null of a text field is Undefined, of an id  *)
(* is Null.  Dates, positions, titles and styles are not modelled.        *)
(***************************************************************************)
EXTENDS Integers, Sequences, FiniteSets, TLC

\* ------------------------------------------------------------------ bounds
\* at most MaxNodes nodes are created through the store API
MaxNodes == 2
\* at most MaxChainNodes nodes are created in a conversation thread
MaxChainNodes == 3
\* at most MaxSessions sessions are created
MaxSessions == 2
\* a completion stream delivers at most MaxChunks chunks
MaxChunks == 2
\* at most MaxFlows submit flows (handleMainInputSubmit/handleBranchSubmit)
MaxFlows == 2

\* at most MaxEdges edges are added with addEdge
MaxEdges == 1
MaxTextLen == 2

\* ------------------------------------------------------------ basic values
Null == 0
Undefined == <<"<undefined>">>
\* an id no generateId() call ever returned
AbsentId == MaxSessions + 2 * (MaxNodes + MaxChainNodes + MaxFlows) + MaxEdges + 1

\* JavaScript truthiness of a string-or-undefined value
Truthy(t) == t # <<>> /\ t # Undefined

\* String.prototype.trim over the whitespace character " "
RECURSIVE TrimStart(_)
TrimStart(s) ==
  IF s = <<>> THEN <<>>
  ELSE IF Head(s) = " " THEN TrimStart(Tail(s)) ELSE s

RECURSIVE TrimEnd(_)
TrimEnd(s) ==
  IF s = <<>> THEN <<>>
  ELSE IF s[Len(s)] = " " THEN TrimEnd(SubSeq(s, 1, Len(s) - 1)) ELSE s

Trim(s) == TrimEnd(TrimStart(s))

\* texts typed by the user (before trimming)
UserInputs == { <<" ", "h", "i", " ">>, <<" ", " ">> }
\* quotedText arguments: absent, empty, a quote
QuoteInputs == { Undefined, <<>>, <<"q">> }
\* chunks delivered by the completion service (never empty)
Chunks == { <<"x">>, <<"y", " ">> }
\* texts passed to updateStreamingText / written as aiResponse through the API
ApiTexts == { <<>>, <<"x">> }
\* texts passed to updateStreamingText by a caller streaming into a node
BufferTexts == { <<>>, <<"b">> }

VARIABLES
  sessions,         \* ConversationSession[]
  activeSessionId,  \* string | null
  activeNodeId,     \* string | null
  streamingState,   \* StreamingState
  textSelection,    \* TextSelection | null of the store
  storage,          \* the 'conversation-storage' item of localStorage: <<>> or <<record>>
  nextId,           \* number of generateId() results handed out so far, plus one
  made,             \* number of createSession and of createContextualNode calls so far
  flows,            \* the submit flows of the canvas (handler + streamMessage)
  ui,               \* React state of ConversationCanvasInner and of its MessageNodes
  gone,             \* history variable: the nodes removeNode removed together with edges
  born,             \* history variable: what each created node was created from
  last,             \* history variable: the latest currentExchange of each created node
  asked,            \* history variable: how the open branch input was asked for
  course            \* history variable: what happened to the stream since startStreaming

vars == <<sessions, activeSessionId, activeNodeId, streamingState, textSelection, storage,
          nextId, made, flows, ui, gone, born, last, asked, course>>

\* the history variables, which no operation of the program reads
hist == <<gone, born, last, asked, course>>

IdleStreaming == [isStreaming |-> FALSE, currentText |-> <<>>, nodeId |-> Null]

\* ----------------------------------------------------------------- getters
\* sessions.findIndex(s => s.id === id), 0 for -1
FindSessionIndex(ss, id) ==
  IF \E i \in 1..Len(ss) : ss[i].id = id
  THEN CHOOSE i \in 1..Len(ss) :
         /\ ss[i].id = id
         /\ \A j \in 1..(i - 1) : ss[j].id # id
  ELSE 0

\* nodes.findIndex(n => n.id === id), 0 for -1
FindNodeIndex(nodes, id) ==
  IF \E i \in 1..Len(nodes) : nodes[i].id = id
  THEN CHOOSE i \in 1..Len(nodes) :
         /\ nodes[i].id = id
         /\ \A j \in 1..(i - 1) : nodes[j].id # id
  ELSE 0

HasActiveSession(ss, active) == FindSessionIndex(ss, active) # 0

\* getActiveSession()/getActiveCanvas(); only used where HasActiveSession
GetActiveCanvas(ss, active) == ss[FindSessionIndex(ss, active)].canvas

HasNode(ss, active, nodeId) ==
  /\ HasActiveSession(ss, active)
  /\ FindNodeIndex(GetActiveCanvas(ss, active).nodes, nodeId) # 0

\* getNode(nodeId); only used where HasNode
GetNode(ss, active, nodeId) ==
  LET nodes == GetActiveCanvas(ss, active).nodes
  IN  nodes[FindNodeIndex(nodes, nodeId)]

\* getActiveSession(): sessions.find(s => s.id === activeSessionId) || null
GetActiveSession(ss, active) ==
  IF \E i \in 1..Len(ss) : ss[i].id = active
  THEN ss[CHOOSE i \in 1..Len(ss) :
            ss[i].id = active /\ \A j \in 1..(i - 1) : ss[j].id # active]
  ELSE Null

\* getActiveCanvas(): session?.canvas || null
GetActiveCanvasOrNull(ss, active) ==
  IF GetActiveSession(ss, active) = Null THEN Null
  ELSE GetActiveSession(ss, active).canvas

\* getNode(nodeId): canvas.nodes.find(n => n.id === nodeId) || null, null without canvas
GetNodeOrNull(ss, active, nodeId) ==
  IF GetActiveCanvasOrNull(ss, active) = Null THEN Null
  ELSE LET nodes == GetActiveCanvasOrNull(ss, active).nodes
       IN  IF \E k \in 1..Len(nodes) : nodes[k].id = nodeId
           THEN nodes[CHOOSE k \in 1..Len(nodes) :
                        nodes[k].id = nodeId /\ \A j \in 1..(k - 1) : nodes[j].id # nodeId]
           ELSE Null

UserTurn(ex) ==
  [role |-> "user", content |-> ex.userMessage, quotedText |-> ex.quotedText]

AssistantTurn(ex) ==
  [role |-> "assistant", content |-> ex.aiResponse, quotedText |-> Undefined]

GetNodeHistory(ss, active, nodeId) ==
  IF ~HasNode(ss, active, nodeId) THEN <<>>
  ELSE GetNode(ss, active, nodeId).messages

GetNodeConversation(ss, active, nodeId) ==
  IF ~HasNode(ss, active, nodeId) THEN <<>>
  ELSE LET node == GetNode(ss, active, nodeId)
           ex == node.currentExchange
       IN  node.messages
             \o (IF Truthy(ex.userMessage) THEN <<UserTurn(ex)>> ELSE <<>>)
             \o (IF Truthy(ex.aiResponse) THEN <<AssistantTurn(ex)>> ELSE <<>>)

\* --------------------------------------------------- pure store operations
\* viewport { x: 0, y: 0, zoom: 1 }, a viewport being modelled by its zoom
DefaultViewport == 1

NewSession(id) ==
  [id |-> id,
   canvas |-> [nodes |-> <<>>, edges |-> <<>>, viewport |-> DefaultViewport,
               metadata |-> [nodeCount |-> 0, branchCount |-> 0]],
   metadata |-> [totalMessages |-> 0, branchCount |-> 0]]

Max(a, b) == IF a >= b THEN a ELSE b

\* addNode falling back to the first session when there is no active session
AddNodeToFirstSession(ss, active, node) ==
  LET i == IF active # Null /\ FindSessionIndex(ss, active) # 0
           THEN FindSessionIndex(ss, active)
           ELSE IF ss # <<>> THEN 1 ELSE 0
  IN  IF i = 0 THEN ss
      ELSE [ss EXCEPT
              ![i].canvas.nodes = Append(ss[i].canvas.nodes, node),
              ![i].canvas.metadata.nodeCount = Len(ss[i].canvas.nodes) + 1,
              ![i].metadata.totalMessages = ss[i].metadata.totalMessages + 1]

AddNodeTo(ss, active, node) ==
  IF active = Null THEN ss
  ELSE LET i == FindSessionIndex(ss, active) IN
    IF i = 0 THEN ss
    ELSE LET canvas == ss[i].canvas IN
      [ss EXCEPT
         ![i].canvas.nodes = Append(canvas.nodes, node),
         ![i].canvas.metadata.nodeCount = Len(canvas.nodes) + 1,
         ![i].metadata.totalMessages = ss[i].metadata.totalMessages + 1]

\* { ...node, ...updates } for updates = { currentExchange }
MergeNode(node, updates) ==
  [f \in DOMAIN node |->
     IF f \in DOMAIN updates THEN updates[f] ELSE node[f]]

\* updateNode also rebuilding the inherited history of the children of the node
UpdateNodeInLive(ss, active, nodeId, updates) ==
  IF active = Null THEN ss
  ELSE LET i == FindSessionIndex(ss, active) IN
    IF i = 0 THEN ss
    ELSE LET canvas == ss[i].canvas
             k == FindNodeIndex(canvas.nodes, nodeId)
         IN  IF k = 0 THEN ss
             ELSE LET merged == MergeNode(canvas.nodes[k], updates)
                  IN  [ss EXCEPT ![i].canvas.nodes =
                         [j \in 1..Len(canvas.nodes) |->
                            IF j = k THEN merged
                            ELSE IF canvas.nodes[j].parentId = nodeId
                            THEN [canvas.nodes[j] EXCEPT !.messages =
                                    merged.messages
                                      \o (IF Truthy(merged.currentExchange.userMessage)
                                          THEN <<UserTurn(merged.currentExchange)>> ELSE <<>>)
                                      \o (IF Truthy(merged.currentExchange.aiResponse)
                                          THEN <<AssistantTurn(merged.currentExchange)>> ELSE <<>>)]
                            ELSE canvas.nodes[j]]]

UpdateNodeIn(ss, active, nodeId, updates) ==
  IF active = Null THEN ss
  ELSE LET i == FindSessionIndex(ss, active) IN
    IF i = 0 THEN ss
    ELSE LET canvas == ss[i].canvas
             k == FindNodeIndex(canvas.nodes, nodeId)
         IN  IF k = 0 THEN ss
             ELSE [ss EXCEPT ![i].canvas.nodes[k] = MergeNode(canvas.nodes[k], updates)]

\* removeNode with the edge filter testing the source only
RemoveNodeFromSourceOnly(ss, active, nodeId) ==
  IF active = Null THEN ss
  ELSE LET i == FindSessionIndex(ss, active) IN
    IF i = 0 THEN ss
    ELSE LET canvas == ss[i].canvas
             KeepNode(n) == n.id # nodeId
             KeepEdge(e) == e.source # nodeId
         IN
      [ss EXCEPT
         ![i].canvas.nodes = SelectSeq(canvas.nodes, KeepNode),
         ![i].canvas.edges = SelectSeq(canvas.edges, KeepEdge),
         ![i].canvas.metadata.nodeCount = Len(canvas.nodes) - 1,
         ![i].metadata.totalMessages = Max(0, ss[i].metadata.totalMessages - 1)]

RemoveNodeFrom(ss, active, nodeId) ==
  IF active = Null THEN ss
  ELSE LET i == FindSessionIndex(ss, active) IN
    IF i = 0 THEN ss
    ELSE LET canvas == ss[i].canvas
             KeepNode(n) == n.id # nodeId
             KeepEdge(e) == e.source # nodeId /\ e.target # nodeId
         IN
      [ss EXCEPT
         ![i].canvas.nodes = SelectSeq(canvas.nodes, KeepNode),
         ![i].canvas.edges = SelectSeq(canvas.edges, KeepEdge),
         ![i].canvas.metadata.nodeCount = Len(canvas.nodes) - 1,
         ![i].metadata.totalMessages = Max(0, ss[i].metadata.totalMessages - 1)]

UpdateCanvasViewportIn(ss, active, viewport) ==
  IF active = Null THEN ss
  ELSE LET i == FindSessionIndex(ss, active) IN
    IF i = 0 THEN ss
    ELSE [ss EXCEPT ![i].canvas.viewport = viewport]

AddEdgeTo(ss, active, edge) ==
  IF active = Null THEN ss
  ELSE LET i == FindSessionIndex(ss, active) IN
    IF i = 0 THEN ss
    ELSE LET canvas == ss[i].canvas
             inc == IF edge.type = "branch" THEN 1 ELSE 0
         IN
      [ss EXCEPT
         ![i].canvas.edges = Append(canvas.edges, edge),
         ![i].canvas.metadata.branchCount = canvas.metadata.branchCount + inc,
         ![i].metadata.branchCount = ss[i].metadata.branchCount + inc]

RemoveEdgeFrom(ss, active, edgeId) ==
  IF active = Null THEN ss
  ELSE LET i == FindSessionIndex(ss, active) IN
    IF i = 0 THEN ss
    ELSE LET canvas == ss[i].canvas
             branchRemoved ==
               IF \E k \in 1..Len(canvas.edges) : canvas.edges[k].id = edgeId
               THEN LET k == CHOOSE k \in 1..Len(canvas.edges) :
                               /\ canvas.edges[k].id = edgeId
                               /\ \A j \in 1..(k - 1) : canvas.edges[j].id # edgeId
                    IN  IF canvas.edges[k].type = "branch" THEN 1 ELSE 0
               ELSE 0
             KeepEdge(e) == e.id # edgeId
         IN
      [ss EXCEPT
         ![i].canvas.edges = SelectSeq(canvas.edges, KeepEdge),
         ![i].canvas.metadata.branchCount =
             Max(0, canvas.metadata.branchCount - branchRemoved),
         ![i].metadata.branchCount =
             Max(0, ss[i].metadata.branchCount - branchRemoved)]

\* createContextualNode inheriting getNodeHistory(parent) instead of
\* getNodeConversation(parent): the parent's own exchange is left out
ContextualNodeFromHistory(ss, active, nodeId, userMessage, parentNodeId, quotedText, sourceNodeId) ==
  [id |-> nodeId,
   parentId |-> parentNodeId,
   messages |-> IF parentNodeId # Null
                THEN GetNodeHistory(ss, active, parentNodeId)
                ELSE <<>>,
   currentExchange |->
     [userMessage |-> Trim(userMessage),
      aiResponse |-> <<>>,
      quotedText |-> IF Truthy(quotedText) THEN quotedText ELSE Undefined,
      sourceNodeId |-> sourceNodeId]]

\* the node built by createContextualNode
ContextualNode(ss, active, nodeId, userMessage, parentNodeId, quotedText, sourceNodeId) ==
  [id |-> nodeId,
   parentId |-> parentNodeId,
   messages |-> IF parentNodeId # Null
                THEN GetNodeConversation(ss, active, parentNodeId)
                ELSE <<>>,
   currentExchange |->
     [userMessage |-> Trim(userMessage),
      aiResponse |-> <<>>,
      quotedText |-> IF Truthy(quotedText) THEN quotedText ELSE Undefined,
      sourceNodeId |-> sourceNodeId]]

\* the edge of createContextualNode starting at the new node instead of the parent
ContextualEdgeLooping(edgeId, parentNodeId, nodeId, quotedText) ==
  [id |-> edgeId, source |-> nodeId, target |-> nodeId,
   type |-> IF Truthy(quotedText) THEN "branch" ELSE "default"]

\* the edge built by createContextualNode when a parent is given
ContextualEdge(edgeId, parentNodeId, nodeId, quotedText) ==
  [id |-> edgeId, source |-> parentNodeId, target |-> nodeId,
   type |-> IF Truthy(quotedText) THEN "branch" ELSE "default"]

\* createContextualNode that links a child without adding it
CreateContextualNodeInEdgeOnly(ss, active, nid, userMessage, parentNodeId, quotedText, sourceNodeId) ==
  LET node == ContextualNode(ss, active, nid, userMessage, parentNodeId,
                             quotedText, sourceNodeId)
  IN  IF parentNodeId # Null
      THEN AddEdgeTo(ss, active, ContextualEdge(nid + 1, parentNodeId, nid, quotedText))
      ELSE AddNodeTo(ss, active, node)

\* sessions after createContextualNode; the node gets id nid, the edge nid + 1
CreateContextualNodeIn(ss, active, nid, userMessage, parentNodeId, quotedText, sourceNodeId) ==
  LET node == ContextualNode(ss, active, nid, userMessage, parentNodeId,
                             quotedText, sourceNodeId)
      withNode == AddNodeTo(ss, active, node)
  IN  IF parentNodeId # Null
      THEN AddEdgeTo(withNode, active,
                     ContextualEdge(nid + 1, parentNodeId, nid, quotedText))
      ELSE withNode

\* generateId() calls made by createContextualNode
IdsOfCreate(parentNodeId) == IF parentNodeId # Null THEN 2 ELSE 1

\* streamingState after startStreaming(nodeId)
StartedStreaming(nodeId) == [isStreaming |-> TRUE, currentText |-> <<>>, nodeId |-> nodeId]

\* finishStreaming resetting the streaming state only when it committed a text
StreamingAfterFinishOnCommit(st) ==
  IF st.nodeId # Null /\ Truthy(st.currentText) THEN IdleStreaming ELSE st

\* streamingState after finishStreaming
StreamingAfterFinish(st) == IdleStreaming

\* fullResponse = chunk in place of fullResponse += chunk
AppendChunkReplacing(fullResponse, chunk) == chunk

\* fullResponse += chunk
AppendChunk(fullResponse, chunk) == fullResponse \o chunk

\* finishStreaming committing whatever the buffer holds, an empty buffer included
FinishStreamingInAnyBuffer(ss, active, st) ==
  IF st.nodeId # Null /\ HasNode(ss, active, st.nodeId)
  THEN UpdateNodeIn(ss, active, st.nodeId,
         [currentExchange |->
            [GetNode(ss, active, st.nodeId).currentExchange
               EXCEPT !.aiResponse = st.currentText]])
  ELSE ss

\* sessions after finishStreaming
FinishStreamingIn(ss, active, st) ==
  IF st.nodeId # Null /\ Truthy(st.currentText) /\ HasNode(ss, active, st.nodeId)
  THEN UpdateNodeIn(ss, active, st.nodeId,
         [currentExchange |->
            [GetNode(ss, active, st.nodeId).currentExchange
               EXCEPT !.aiResponse = st.currentText]])
  ELSE ss

\* ------------------------------------------------------ history variables
\* every node of every session
AllNodes(ss) ==
  UNION { { ss[i].canvas.nodes[k] : k \in 1..Len(ss[i].canvas.nodes) } : i \in 1..Len(ss) }

\* last' : nodes still stored show their stored exchange, removed ones keep the last seen
LastAfter(ss2, old) ==
  [id \in DOMAIN old \cup { n.id : n \in AllNodes(ss2) } |->
     IF \E n \in AllNodes(ss2) : n.id = id
     THEN (CHOOSE n \in AllNodes(ss2) : n.id = id).currentExchange
     ELSE old[id]]

\* born' after createContextualNode(.., parentNodeId, ..) returned nid: the parent as
\* the caller saw it in the store just before the call
BornAfter(ss, active, nid, parentNodeId) ==
  (nid :> [session |-> IF HasActiveSession(ss, active) THEN active ELSE Null,
           parent |-> parentNodeId,
           found |-> parentNodeId # Null /\ HasNode(ss, active, parentNodeId),
           pex |-> IF parentNodeId # Null /\ HasNode(ss, active, parentNodeId)
                   THEN GetNode(ss, active, parentNodeId).currentExchange
                   ELSE Null]) @@ born

\* ------------------------------------------------------------ persistence
\* persist option version
Version == 4

\* the state kept by the store, as persist writes it (no partialize option is given)
StoreState(ss, active, activeNode, st, selection) ==
  [sessions |-> ss, activeSessionId |-> active, activeNodeId |-> activeNode,
   streamingState |-> st, textSelection |-> selection]

\* the item persist writes after a set()
Snapshot(ss, active, activeNode, st, selection) ==
  << [version |-> Version, state |-> StoreState(ss, active, activeNode, st, selection)] >>

\* ------------------------------------------------------------ flows and ui
FlowIds == 1..MaxFlows

NoFlow == [pc |-> "idle", nodeId |-> Null, fullResponse |-> <<>>,
           chunks |-> <<>>, failed |-> FALSE, alone |-> TRUE]

\* textSelection === null, read as textSelection?.selectedText and textSelection?.nodeId
NoSelection == [nodeId |-> Null, selectedText |-> Undefined]

NoUi == [textSelection |-> NoSelection, selectedNodeId |-> Null, showMainInput |-> FALSE,
         showBranchInput |-> FALSE, branchInputPosition |-> Null,
         nodeTextSelection |-> {}, effects |-> {}]

\* the initial state of the store
EmptyState == StoreState(<<>>, Null, Null, IdleStreaming, NoSelection)

\* a migrate that carries the stored sessions over from the old schema
MigrateKeepingSessions(persistedState, version) ==
  IF version < Version
  THEN [EmptyState EXCEPT !.sessions = persistedState.sessions]
  ELSE persistedState

\* persist option migrate
Migrate(persistedState, version) ==
  IF version < Version THEN EmptyState ELSE persistedState

\* the state of the store after hydration from the stored item
Hydrate(item) ==
  IF item = <<>> THEN EmptyState
  ELSE IF item[1].version = Version THEN item[1].state
  ELSE Migrate(item[1].state, item[1].version)

\* persist writing the item after a set() of the store
Save ==
  storage' = Snapshot(sessions', activeSessionId', activeNodeId', streamingState',
                      textSelection')

\* the graph operations return before set() when there is no active session
SaveIfActive ==
  storage' = IF HasActiveSession(sessions, activeSessionId)
             THEN Snapshot(sessions', activeSessionId', activeNodeId', streamingState',
                           textSelection')
             ELSE storage

\* the centre of the window, where handleBranchRequest puts the branch input
ScreenCenter == 1

\* a store call made by anyone but flow f happens while the other flows stream
Disturb(fl, f) ==
  [g \in FlowIds |->
     IF g # f /\ fl[g].pc = "streaming" THEN [fl[g] EXCEPT !.alone = FALSE] ELSE fl[g]]

\* the continuation of a handler awaiting streamMessage runs as a microtask,
\* before any further event is dispatched
NoPendingResume == \A f \in FlowIds : flows[f].pc # "returned"

Init ==
  /\ sessions = <<>>
  /\ activeSessionId = Null
  /\ activeNodeId = Null
  /\ streamingState = IdleStreaming
  /\ textSelection = NoSelection
  /\ storage = <<>>
  /\ nextId = 1
  /\ made = [sessions |-> 0, nodes |-> 0, edges |-> 0]
  /\ flows = [f \in FlowIds |-> NoFlow]
  /\ ui = NoUi
  /\ gone = {}
  /\ born = <<>>
  /\ last = <<>>
  /\ asked = "closed"
  /\ course = "none"

\* ids a caller can pass: the ids handed out so far for that kind of object, and
\* one never handed out
SessionIdArgs == { sessions[i].id : i \in 1..Len(sessions) } \cup {AbsentId}
NodeIdArgs == { n.id : n \in AllNodes(sessions) } \cup {AbsentId}
EdgeIdArgs ==
  UNION { { sessions[i].canvas.edges[k].id : k \in 1..Len(sessions[i].canvas.edges) } :
          i \in 1..Len(sessions) } \cup {AbsentId}

\* the nodes of the active canvas
ActiveNodeIds ==
  IF HasActiveSession(sessions, activeSessionId)
  THEN { GetActiveCanvas(sessions, activeSessionId).nodes[k].id :
           k \in 1..Len(GetActiveCanvas(sessions, activeSessionId).nodes) }
  ELSE {}

\* sourceNodeId as the canvas passes it: the quoted node, when there is a quote
SourceArg(parentNodeId, quotedText) == IF Truthy(quotedText) THEN parentNodeId ELSE Null

\* ------------------------------------------------------ store API actions
CreateSession ==
  /\ NoPendingResume
  /\ made.sessions < MaxSessions
  /\ sessions' = Append(sessions, NewSession(nextId))
  /\ activeSessionId' = nextId
  /\ nextId' = nextId + 1
  /\ made' = [made EXCEPT !.sessions = @ + 1]
  /\ flows' = Disturb(flows, Null)
  /\ UNCHANGED <<streamingState, ui>>
  /\ UNCHANGED <<activeNodeId, textSelection>>
  /\ Save

SetActiveSession(sessionId) ==
  /\ NoPendingResume
  /\ activeSessionId' = sessionId
  /\ flows' = Disturb(flows, Null)
  /\ UNCHANGED <<sessions, streamingState, nextId, made, ui>>
  /\ UNCHANGED <<activeNodeId, textSelection>>
  /\ Save

\* deleteSession leaving the active id as it is
DeleteSessionKeepingActive(sessionId) ==
  /\ NoPendingResume
  /\ LET Keep(s) == s.id # sessionId
     IN  sessions' = SelectSeq(sessions, Keep)
  /\ activeSessionId' = activeSessionId
  /\ flows' = Disturb(flows, Null)
  /\ UNCHANGED <<streamingState, nextId, made, ui>>
  /\ UNCHANGED <<activeNodeId, textSelection>>
  /\ Save

DeleteSession(sessionId) ==
  /\ NoPendingResume
  /\ LET Keep(s) == s.id # sessionId
     IN  sessions' = SelectSeq(sessions, Keep)
  /\ activeSessionId' = IF activeSessionId = sessionId THEN Null ELSE activeSessionId
  /\ flows' = Disturb(flows, Null)
  /\ UNCHANGED <<streamingState, nextId, made, ui>>
  /\ UNCHANGED <<activeNodeId, textSelection>>
  /\ Save

CreateContextualNode(userMessage, parentNodeId, quotedText, sourceNodeId) ==
  /\ NoPendingResume
  /\ sessions' = CreateContextualNodeIn(sessions, activeSessionId, nextId, userMessage,
                                        parentNodeId, quotedText, sourceNodeId)
  /\ nextId' = nextId + IdsOfCreate(parentNodeId)
  /\ made' = [made EXCEPT !.nodes = @ + 1]
  /\ flows' = Disturb(flows, Null)
  /\ UNCHANGED <<activeSessionId, streamingState, ui>>
  /\ UNCHANGED <<activeNodeId, textSelection>>
  /\ SaveIfActive

\* updateNode(nodeId, { currentExchange: { ...node.currentExchange, aiResponse } })
UpdateNode(nodeId, aiResponse) ==
  /\ NoPendingResume
  /\ sessions' =
       IF HasNode(sessions, activeSessionId, nodeId)
       THEN UpdateNodeIn(sessions, activeSessionId, nodeId,
              [currentExchange |->
                 [GetNode(sessions, activeSessionId, nodeId).currentExchange
                    EXCEPT !.aiResponse = aiResponse]])
       ELSE UpdateNodeIn(sessions, activeSessionId, nodeId,
              [currentExchange |-> [aiResponse |-> aiResponse]])
  /\ flows' = Disturb(flows, Null)
  /\ UNCHANGED <<activeSessionId, streamingState, nextId, made, ui>>
  /\ UNCHANGED <<activeNodeId, textSelection>>
  /\ SaveIfActive

RemoveNode(nodeId) ==
  /\ NoPendingResume
  /\ sessions' = RemoveNodeFrom(sessions, activeSessionId, nodeId)
  /\ flows' = Disturb(flows, Null)
  /\ UNCHANGED <<activeSessionId, streamingState, nextId, made, ui>>
  /\ UNCHANGED <<activeNodeId, textSelection>>
  /\ SaveIfActive

RemoveEdge(edgeId) ==
  /\ NoPendingResume
  /\ sessions' = RemoveEdgeFrom(sessions, activeSessionId, edgeId)
  /\ flows' = Disturb(flows, Null)
  /\ UNCHANGED <<activeSessionId, streamingState, nextId, made, ui>>
  /\ UNCHANGED <<activeNodeId, textSelection>>
  /\ SaveIfActive

StartStreaming(nodeId) ==
  /\ NoPendingResume
  /\ streamingState' = StartedStreaming(nodeId)
  /\ flows' = Disturb(flows, Null)
  /\ UNCHANGED <<sessions, activeSessionId, nextId, made, ui>>
  /\ UNCHANGED <<activeNodeId, textSelection>>
  /\ Save

\* updateStreamingText also writing the text into the streaming node
UpdateStreamingTextIntoNode(text) ==
  /\ NoPendingResume
  /\ streamingState' = [streamingState EXCEPT !.currentText = text]
  /\ sessions' =
       IF HasNode(sessions, activeSessionId, streamingState.nodeId)
       THEN UpdateNodeIn(sessions, activeSessionId, streamingState.nodeId,
              [currentExchange |->
                 [GetNode(sessions, activeSessionId, streamingState.nodeId).currentExchange
                    EXCEPT !.aiResponse = text]])
       ELSE sessions
  /\ flows' = Disturb(flows, Null)
  /\ UNCHANGED <<activeSessionId, nextId, made, ui>>
  /\ UNCHANGED <<activeNodeId, textSelection>>
  /\ Save

UpdateStreamingText(text) ==
  /\ NoPendingResume
  /\ streamingState' = [streamingState EXCEPT !.currentText = text]
  /\ flows' = Disturb(flows, Null)
  /\ UNCHANGED <<sessions, activeSessionId, nextId, made, ui>>
  /\ UNCHANGED <<activeNodeId, textSelection>>
  /\ Save

\* finishStreaming committing into the session that stores the target node
FinishStreamingAcross ==
  /\ NoPendingResume
  /\ LET holders == { i \in 1..Len(sessions) :
                        \E k \in 1..Len(sessions[i].canvas.nodes) :
                          sessions[i].canvas.nodes[k].id = streamingState.nodeId }
     IN  sessions' = IF holders = {} THEN sessions
                     ELSE FinishStreamingIn(sessions, sessions[CHOOSE i \in holders : TRUE].id,
                                            streamingState)
  /\ streamingState' = StreamingAfterFinish(streamingState)
  /\ flows' = Disturb(flows, Null)
  /\ UNCHANGED <<activeSessionId, nextId, made, ui>>
  /\ UNCHANGED <<activeNodeId, textSelection>>
  /\ Save

FinishStreaming ==
  /\ NoPendingResume
  /\ sessions' = FinishStreamingIn(sessions, activeSessionId, streamingState)
  /\ streamingState' = StreamingAfterFinish(streamingState)
  /\ flows' = Disturb(flows, Null)
  /\ UNCHANGED <<activeSessionId, nextId, made, ui>>
  /\ UNCHANGED <<activeNodeId, textSelection>>
  /\ Save

\* a node as a caller of addNode builds it
ApiNode(id) ==
  [id |-> id, parentId |-> Null, messages |-> <<>>,
   currentExchange |-> [userMessage |-> <<"h", "i">>, aiResponse |-> <<>>,
                        quotedText |-> Undefined, sourceNodeId |-> Null]]

\* viewports passed to updateCanvasViewport
Viewports == { DefaultViewport, DefaultViewport + 1 }

AddNode(node) ==
  /\ NoPendingResume
  /\ sessions' = AddNodeTo(sessions, activeSessionId, node)
  /\ nextId' = nextId + 1
  /\ made' = [made EXCEPT !.nodes = @ + 1]
  /\ flows' = Disturb(flows, Null)
  /\ UNCHANGED <<activeSessionId, streamingState, ui>>
  /\ UNCHANGED <<activeNodeId, textSelection>>
  /\ SaveIfActive

AddEdge(edge) ==
  /\ NoPendingResume
  /\ sessions' = AddEdgeTo(sessions, activeSessionId, edge)
  /\ nextId' = nextId + 1
  /\ made' = [made EXCEPT !.edges = @ + 1]
  /\ flows' = Disturb(flows, Null)
  /\ UNCHANGED <<activeSessionId, streamingState, ui>>
  /\ UNCHANGED <<activeNodeId, textSelection>>
  /\ SaveIfActive

UpdateCanvasViewport(viewport) ==
  /\ NoPendingResume
  /\ sessions' = UpdateCanvasViewportIn(sessions, activeSessionId, viewport)
  /\ flows' = Disturb(flows, Null)
  /\ UNCHANGED <<activeSessionId, streamingState, nextId, made, ui>>
  /\ UNCHANGED <<activeNodeId, textSelection>>
  /\ SaveIfActive

SetActiveNode(nodeId) ==
  /\ NoPendingResume
  /\ activeNodeId' = nodeId
  /\ flows' = Disturb(flows, Null)
  /\ UNCHANGED <<sessions, activeSessionId, streamingState, nextId, made, ui>>
  /\ UNCHANGED textSelection
  /\ Save

SetTextSelection(selection) ==
  /\ NoPendingResume
  /\ textSelection' = selection
  /\ flows' = Disturb(flows, Null)
  /\ UNCHANGED <<sessions, activeSessionId, activeNodeId, streamingState, nextId, made, ui>>
  /\ Save

ClearAll ==
  /\ NoPendingResume
  /\ sessions' = <<>>
  /\ activeSessionId' = Null
  /\ activeNodeId' = Null
  /\ streamingState' = IdleStreaming
  /\ textSelection' = NoSelection
  /\ flows' = Disturb(flows, Null)
  /\ UNCHANGED <<nextId, made, ui>>
  /\ Save

\* gone' after removeNode(nodeId)
GoneAfter(nodeId) ==
  IF /\ HasNode(sessions, activeSessionId, nodeId)
     /\ \E k \in 1..Len(GetActiveCanvas(sessions, activeSessionId).edges) :
          LET e == GetActiveCanvas(sessions, activeSessionId).edges[k]
          IN  e.source = nodeId \/ e.target = nodeId
  THEN gone \cup {nodeId}
  ELSE gone

\* The store under arbitrary calls of its graph operations
Next ==
  \/ CreateSession /\ UNCHANGED hist
  \/ \E id \in SessionIdArgs : SetActiveSession(id) /\ UNCHANGED hist
  \/ \E id \in SessionIdArgs : DeleteSession(id) /\ UNCHANGED hist
  \/ /\ made.nodes < MaxNodes
     /\ \E m \in UserInputs, p \in NodeIdArgs \cup {Null}, q \in QuoteInputs :
          CreateContextualNode(m, p, q, SourceArg(p, q))
     /\ UNCHANGED hist
  \/ \E id \in NodeIdArgs :
       RemoveNode(id) /\ gone' = GoneAfter(id) /\ UNCHANGED <<born, last, asked, course>>
  \/ \E id \in EdgeIdArgs : RemoveEdge(id) /\ UNCHANGED hist

Spec == Init /\ [][Next]_vars

\* ------------------------------------------------- conversation threads
\* the state once the application has created its first session
ChainInit ==
  /\ sessions = <<NewSession(1)>>
  /\ activeSessionId = 1
  /\ activeNodeId = Null
  /\ streamingState = IdleStreaming
  /\ textSelection = NoSelection
  /\ storage = Snapshot(<<NewSession(1)>>, 1, Null, IdleStreaming, NoSelection)
  /\ nextId = 2
  /\ made = [sessions |-> 1, nodes |-> 0, edges |-> 0]
  /\ flows = [f \in FlowIds |-> NoFlow]
  /\ ui = NoUi
  /\ gone = {}
  /\ born = <<>>
  /\ last = <<>>
  /\ asked = "closed"
  /\ course = "none"

\* responses written into a node
ResponseTexts == { <<"x">>, <<"y", "z">>, Undefined }

\* One session in which threads are grown, answered and pruned
ChainNext ==
  \/ /\ made.nodes < MaxChainNodes
     /\ \E m \in UserInputs, p \in ActiveNodeIds \cup {Null} :
          /\ CreateContextualNode(m, p, Undefined, Null)
          /\ born' = BornAfter(sessions, activeSessionId, nextId, p)
     /\ last' = LastAfter(sessions', last)
     /\ UNCHANGED <<gone, asked, course>>
  \/ \E id \in ActiveNodeIds, t \in ResponseTexts :
       /\ UpdateNode(id, t)
       /\ last' = LastAfter(sessions', last)
       /\ UNCHANGED <<gone, born, asked, course>>
  \/ \E id \in ActiveNodeIds :
       RemoveNode(id) /\ gone' = GoneAfter(id) /\ UNCHANGED <<born, last, asked, course>>

ChainSpec == ChainInit /\ [][ChainNext]_vars


\* ------------------------------------------- the graph API of the store
\* edges as a caller of addEdge builds them
ApiEdges ==
  { [id |-> nextId, source |-> a, target |-> b, type |-> t] :
      a \in NodeIdArgs, b \in NodeIdArgs, t \in {"default", "branch"} }

\* Every graph operation of the store, called with and without a valid active session
\* and with present and absent ids
ApiNext ==
  \/ \E id \in SessionIdArgs : SetActiveSession(id) /\ UNCHANGED hist
  \/ /\ made.nodes < MaxNodes
     /\ AddNode(ApiNode(nextId))
     /\ UNCHANGED hist
  \/ /\ made.nodes < MaxNodes
     /\ \E m \in UserInputs, p \in NodeIdArgs \cup {Null} :
          /\ CreateContextualNode(m, p, Undefined, Null)
          /\ born' = BornAfter(sessions, activeSessionId, nextId, p)
     /\ UNCHANGED <<gone, last, asked, course>>
  \/ \E id \in NodeIdArgs, t \in ApiTexts : UpdateNode(id, t) /\ UNCHANGED hist
  \/ \E id \in NodeIdArgs : RemoveNode(id) /\ UNCHANGED hist
  \/ /\ made.edges < MaxEdges
     /\ \E e \in ApiEdges : AddEdge(e)
     /\ UNCHANGED hist
  \/ \E id \in EdgeIdArgs : RemoveEdge(id) /\ UNCHANGED hist
  \/ \E v \in Viewports : UpdateCanvasViewport(v) /\ UNCHANGED hist

ApiSpec == ChainInit /\ [][ApiNext]_vars

\* --------------------------------------------- the store while streaming
\* the quotes and the responses callers pass while streams run
StreamQuotes == { Undefined, <<"q">> }
StreamResponses == { <<"y", "z">>, Undefined }

\* One session under the graph operations and the streaming operations of the store
StreamNext ==
  \/ /\ made.nodes < MaxNodes
     /\ \E m \in UserInputs, p \in ActiveNodeIds \cup {Null}, q \in StreamQuotes :
          CreateContextualNode(m, p, q, SourceArg(p, q))
     /\ UNCHANGED hist
  \/ \E id \in ActiveNodeIds, t \in StreamResponses : UpdateNode(id, t) /\ UNCHANGED hist
  \/ \E id \in NodeIdArgs : RemoveNode(id) /\ UNCHANGED hist
  \/ \E id \in EdgeIdArgs : RemoveEdge(id) /\ UNCHANGED hist
  \/ \E id \in SessionIdArgs : SetActiveSession(id) /\ UNCHANGED hist
  \/ \E id \in NodeIdArgs : StartStreaming(id) /\ UNCHANGED hist
  \/ \E t \in BufferTexts : UpdateStreamingText(t) /\ UNCHANGED hist
  \/ FinishStreaming /\ UNCHANGED hist
  \/ \E id \in ActiveNodeIds \cup {Null} : SetActiveNode(id) /\ UNCHANGED hist
  \/ ClearAll /\ UNCHANGED hist

StreamSpec == ChainInit /\ [][StreamNext]_vars

\* ------------------------------------------ streaming across session changes
\* ids of the nodes stored in any session
StoredNodeIds(ss) == { n.id : n \in AllNodes(ss) }

\* course' after an operation other than startStreaming and finishStreaming: a
\* started stream has strayed once the active session changed or its target
\* node left the store
CourseAfter ==
  IF /\ course = "steady"
     /\ \/ activeSessionId' # activeSessionId
        \/ /\ streamingState.nodeId \in StoredNodeIds(sessions)
           /\ streamingState.nodeId \notin StoredNodeIds(sessions')
  THEN "strayed"
  ELSE course

\* course' after finishStreaming: a strayed stream with text in its buffer either
\* finds its target in the active canvas again or has lost it
CourseAfterFinish ==
  IF course = "strayed" /\ Truthy(streamingState.currentText)
  THEN IF streamingState.nodeId \in ActiveNodeIds THEN "returned" ELSE "lost"
  ELSE "none"

\* Two sessions, root nodes, and streams that are started in one session and
\* finished after the store moved on
SwitchNext ==
  \/ /\ made.sessions < MaxSessions
     /\ CreateSession
     /\ course' = CourseAfter /\ UNCHANGED <<gone, born, last, asked>>
  \/ \E id \in SessionIdArgs :
       SetActiveSession(id) /\ course' = CourseAfter /\ UNCHANGED <<gone, born, last, asked>>
  \/ \E id \in SessionIdArgs :
       DeleteSession(id) /\ course' = CourseAfter /\ UNCHANGED <<gone, born, last, asked>>
  \/ /\ made.nodes < MaxNodes
     /\ \E m \in UserInputs : CreateContextualNode(m, Null, Undefined, Null)
     /\ course' = CourseAfter /\ UNCHANGED <<gone, born, last, asked>>
  \/ \E id \in NodeIdArgs :
       RemoveNode(id) /\ course' = CourseAfter /\ UNCHANGED <<gone, born, last, asked>>
  \/ \E id \in ActiveNodeIds :
       StartStreaming(id) /\ course' = "steady" /\ UNCHANGED <<gone, born, last, asked>>
  \/ \E t \in BufferTexts :
       UpdateStreamingText(t) /\ course' = CourseAfter /\ UNCHANGED <<gone, born, last, asked>>
  \/ FinishStreaming /\ course' = CourseAfterFinish /\ UNCHANGED <<gone, born, last, asked>>

SwitchSpec == ChainInit /\ [][SwitchNext]_vars

\* ------------------------------------------------------ the submit flows
\* a free slot for a new flow
LowestIdle(f) ==
  /\ flows[f].pc = "idle"
  /\ \A g \in 1..(f - 1) : flows[g].pc # "idle"

\* the flow record once streamMessage has called startStreaming(nodeId); the addMessage
\* and getConversationHistory it calls before are the legacy no-ops of the store
StartedFlow(nodeId) ==
  [pc |-> "streaming", nodeId |-> nodeId, fullResponse |-> <<>>,
   chunks |-> <<>>, failed |-> FALSE, alone |-> TRUE]

\* the flow record once the handler has returned: its locals are gone
FinishedFlow(fl) == [NoFlow EXCEPT !.pc = "done", !.nodeId = fl.nodeId, !.failed = fl.failed]

\* the AI content MessageNode shows for node n, in which text can be selected
Displayed(n) ==
  IF streamingState.nodeId = n /\ streamingState.isStreaming
  THEN streamingState.currentText
  ELSE GetNode(sessions, activeSessionId, n).currentExchange.aiResponse

\* setShowMainInput(true): the Start Conversation button or Ctrl/Cmd+K
OpenMainInput ==
  /\ NoPendingResume
  /\ ~ui.showMainInput
  /\ ui' = [ui EXCEPT !.showMainInput = TRUE]
  /\ UNCHANGED <<sessions, activeSessionId, streamingState, nextId, made, flows>>
  /\ UNCHANGED <<activeNodeId, textSelection, storage>>

\* the Escape key
KeyEscape ==
  /\ NoPendingResume
  /\ ui.showMainInput \/ ui.showBranchInput
  /\ ui' = [ui EXCEPT !.showMainInput = FALSE, !.showBranchInput = FALSE]
  /\ UNCHANGED <<sessions, activeSessionId, streamingState, nextId, made, flows>>
  /\ UNCHANGED <<activeNodeId, textSelection, storage>>

\* MessageNode.handleTextSelection on the whole shown AI content of node n, passed on
\* to the canvas' handleTextSelection
HandleTextSelection(n) ==
  /\ NoPendingResume
  /\ HasNode(sessions, activeSessionId, n)
  /\ Truthy(Displayed(n))
  /\ Truthy(Trim(Displayed(n)))
  /\ ui' = [ui EXCEPT !.textSelection = [nodeId |-> n, selectedText |-> Trim(Displayed(n))]]
  /\ UNCHANGED <<sessions, activeSessionId, streamingState, nextId, made, flows>>
  /\ UNCHANGED <<activeNodeId, textSelection, storage>>

\* the Branch button of node n, shown while the node has a selection
HandleBranchRequest(n) ==
  /\ NoPendingResume
  /\ ui.textSelection # NoSelection
  /\ ui.textSelection.nodeId = n
  /\ HasNode(sessions, activeSessionId, n)
  /\ ui' = [ui EXCEPT !.branchInputPosition = ScreenCenter,
                      !.selectedNodeId = n,
                      !.showBranchInput = TRUE]
  /\ UNCHANGED <<sessions, activeSessionId, streamingState, nextId, made, flows>>
  /\ UNCHANGED <<activeNodeId, textSelection, storage>>

ResetBranchInput(u) ==
  [u EXCEPT !.showBranchInput = FALSE, !.branchInputPosition = Null,
            !.selectedNodeId = Null, !.textSelection = NoSelection]

HandleBranchCancel ==
  /\ NoPendingResume
  /\ ui.showBranchInput /\ ui.branchInputPosition # Null
  /\ ui' = ResetBranchInput(ui)
  /\ UNCHANGED <<sessions, activeSessionId, streamingState, nextId, made, flows>>
  /\ UNCHANGED <<activeNodeId, textSelection, storage>>

\* FloatingBranchInput.handleSubmit -> handleMainInputSubmit, up to the first await of
\* streamMessage: createContextualNode, then startStreaming
HandleMainInputSubmit(f, message) ==
  /\ NoPendingResume
  /\ LowestIdle(f)
  /\ ui.showMainInput
  /\ Truthy(Trim(message))
  /\ sessions' = CreateContextualNodeIn(sessions, activeSessionId, nextId, Trim(message),
                                        Null, Undefined, Null)
  /\ nextId' = nextId + IdsOfCreate(Null)
  /\ made' = [made EXCEPT !.nodes = @ + 1]
  /\ ui' = [ui EXCEPT !.showMainInput = FALSE]
  /\ streamingState' = StartedStreaming(nextId)
  /\ flows' = [Disturb(flows, f) EXCEPT ![f] = StartedFlow(nextId)]
  /\ UNCHANGED activeSessionId
  /\ UNCHANGED <<activeNodeId, textSelection>>
  /\ Save

\* FloatingBranchInput.handleSubmit -> handleBranchSubmit, up to the first await of
\* streamMessage: createContextualNode under the selected node, resetBranchInput, then
\* startStreaming
HandleBranchSubmit(f, message) ==
  /\ NoPendingResume
  /\ LowestIdle(f)
  /\ ui.showBranchInput /\ ui.branchInputPosition # Null
  /\ Truthy(Trim(message))
  /\ ui.selectedNodeId # Null
  /\ HasNode(sessions, activeSessionId, ui.selectedNodeId)
  /\ LET quotedText == ui.textSelection.selectedText
         sourceNodeId == ui.textSelection.nodeId
     IN  sessions' = CreateContextualNodeIn(sessions, activeSessionId, nextId, Trim(message),
                                            ui.selectedNodeId, quotedText, sourceNodeId)
  /\ nextId' = nextId + IdsOfCreate(ui.selectedNodeId)
  /\ made' = [made EXCEPT !.nodes = @ + 1]
  /\ ui' = ResetBranchInput(ui)
  /\ streamingState' = StartedStreaming(nextId)
  /\ flows' = [Disturb(flows, f) EXCEPT ![f] = StartedFlow(nextId)]
  /\ UNCHANGED activeSessionId
  /\ UNCHANGED <<activeNodeId, textSelection>>
  /\ Save

\* one round of the for-await loop of streamMessage
StreamChunk(f, chunk) ==
  /\ NoPendingResume
  /\ flows[f].pc = "streaming"
  /\ Len(flows[f].chunks) < MaxChunks
  /\ streamingState' =
       [streamingState EXCEPT !.currentText = AppendChunk(flows[f].fullResponse, chunk)]
  /\ flows' = [Disturb(flows, f) EXCEPT
                 ![f].fullResponse = AppendChunk(flows[f].fullResponse, chunk),
                 ![f].chunks = Append(flows[f].chunks, chunk)]
  /\ UNCHANGED <<sessions, activeSessionId, nextId, made, ui>>
  /\ UNCHANGED <<activeNodeId, textSelection>>
  /\ Save

\* the stream is exhausted: finishStreaming(), and streamMessage resolves
StreamEnd(f) ==
  /\ NoPendingResume
  /\ flows[f].pc = "streaming"
  /\ sessions' = FinishStreamingIn(sessions, activeSessionId, streamingState)
  /\ streamingState' = StreamingAfterFinish(streamingState)
  /\ flows' = [Disturb(flows, f) EXCEPT ![f].pc = "returned"]
  /\ UNCHANGED <<activeSessionId, nextId, made, ui>>
  /\ UNCHANGED <<activeNodeId, textSelection>>
  /\ Save

\* the service throws: the catch of streamMessage records the error in the hook, calls
\* finishStreaming() and does not rethrow, so streamMessage resolves
StreamError(f) ==
  /\ NoPendingResume
  /\ flows[f].pc = "streaming"
  /\ sessions' = FinishStreamingIn(sessions, activeSessionId, streamingState)
  /\ streamingState' = StreamingAfterFinish(streamingState)
  /\ flows' = [Disturb(flows, f) EXCEPT ![f].pc = "returned", ![f].failed = TRUE]
  /\ UNCHANGED <<activeSessionId, nextId, made, ui>>
  /\ UNCHANGED <<activeNodeId, textSelection>>
  /\ Save

\* the handler after `await streamMessage(..)`, whose value is undefined
HandlerResume(f) ==
  /\ flows[f].pc = "returned"
  /\ sessions' =
       IF HasNode(sessions, activeSessionId, flows[f].nodeId)
       THEN UpdateNodeIn(sessions, activeSessionId, flows[f].nodeId,
              [currentExchange |->
                 [GetNode(sessions, activeSessionId, flows[f].nodeId).currentExchange
                    EXCEPT !.aiResponse = Undefined]])
       ELSE sessions
  /\ flows' = [Disturb(flows, f) EXCEPT ![f] = FinishedFlow(flows[f])]
  /\ UNCHANGED <<activeSessionId, streamingState, nextId, made, ui>>
  /\ UNCHANGED <<activeNodeId, textSelection>>
  /\ storage' = IF HasNode(sessions, activeSessionId, flows[f].nodeId)
                THEN Snapshot(sessions', activeSessionId', activeNodeId', streamingState',
                              textSelection')
                ELSE storage

\* The canvas: submit flows, their streams, and store calls made meanwhile
FlowNext ==
  \/ OpenMainInput /\ UNCHANGED hist
  \/ KeyEscape /\ UNCHANGED hist
  \/ \E n \in ActiveNodeIds : HandleTextSelection(n) /\ UNCHANGED hist
  \/ \E n \in ActiveNodeIds : HandleBranchRequest(n) /\ UNCHANGED hist
  \/ HandleBranchCancel /\ UNCHANGED hist
  \/ \E f \in FlowIds, m \in UserInputs : HandleMainInputSubmit(f, m) /\ UNCHANGED hist
  \/ \E f \in FlowIds, m \in UserInputs : HandleBranchSubmit(f, m) /\ UNCHANGED hist
  \/ \E f \in FlowIds, c \in Chunks : StreamChunk(f, c) /\ UNCHANGED hist
  \/ \E f \in FlowIds : StreamEnd(f) /\ UNCHANGED hist
  \/ \E f \in FlowIds : StreamError(f) /\ UNCHANGED hist
  \/ \E f \in FlowIds : HandlerResume(f) /\ UNCHANGED hist
  \/ \E id \in SessionIdArgs : SetActiveSession(id) /\ UNCHANGED hist
  \/ \E id \in ActiveNodeIds : RemoveNode(id) /\ UNCHANGED hist

FlowSpec == ChainInit /\ [][FlowNext]_vars

\* the service ends or fails every stream, and every task of the event loop runs
FairFlowSpec ==
  /\ FlowSpec
  /\ \A f \in FlowIds : WF_vars((StreamEnd(f) \/ StreamError(f)) /\ UNCHANGED hist)
  /\ \A f \in FlowIds : WF_vars(HandlerResume(f) /\ UNCHANGED hist)

\* ------------------------------------------------------ selecting text
\* String.prototype.substring(start, end) for 0 <= start <= end <= length
Substring(s, start, end) == SubSeq(s, start + 1, end)

\* the TextSelection objects MessageNode.handleTextSelection makes for node id when the
\* window selection covers the characters i .. j-1 of the text T under the mouse, inside
\* telling whether the range lies in the AI content: none, or one
ComputeSelection(id, T, i, j, inside) ==
  IF i = j THEN {}
  ELSE LET selectedText == Trim(Substring(T, i, j))
       IN  IF ~Truthy(selectedText) THEN {}
           ELSE IF ~inside THEN {}
           ELSE { [nodeId |-> id, startIndex |-> i, endIndex |-> i + Len(selectedText),
                   selectedText |-> selectedText] }

\* what the canvas reads of a TextSelection: selectedText and nodeId
Quoted(s) == [nodeId |-> s.nodeId, selectedText |-> s.selectedText]

\* the responses written into the nodes text is selected in
AnswerTexts == { <<" ", "b">> }

\* the text under a selection of node n: the AI content, or the user message together
\* with it when the range began outside the AI content
Selectable(n, inside) ==
  IF inside THEN Displayed(n)
  ELSE GetNode(sessions, activeSessionId, n).currentExchange.userMessage \o Displayed(n)

\* mouseup on the AI content of node n: MessageNode.handleTextSelection, which sets the
\* node's selection state and passes a TextSelection on to the canvas' handleTextSelection
SelectText(n, i, j, inside) ==
  /\ NoPendingResume
  /\ HasNode(sessions, activeSessionId, n)
  /\ Truthy(Displayed(n))
  /\ i <= j /\ j <= Len(Selectable(n, inside))
  /\ LET selectionData == ComputeSelection(n, Selectable(n, inside), i, j, inside)
     IN  ui' = [ui EXCEPT
                  !.nodeTextSelection = { s \in @ : s.nodeId # n } \cup selectionData,
                  !.textSelection = IF selectionData = {} THEN @
                                    ELSE Quoted(CHOOSE s \in selectionData : TRUE)]
  /\ UNCHANGED <<sessions, activeSessionId, streamingState, nextId, made, flows>>
  /\ UNCHANGED <<activeNodeId, textSelection, storage>>

\* selectionchange with a collapsed window selection: every MessageNode clears its state
HandleSelectionClear ==
  /\ NoPendingResume
  /\ ui.nodeTextSelection # {}
  /\ ui' = [ui EXCEPT !.nodeTextSelection = {}]
  /\ UNCHANGED <<sessions, activeSessionId, streamingState, nextId, made, flows>>
  /\ UNCHANGED <<activeNodeId, textSelection, storage>>

\* the Branch button of node n, shown while the node has a selection state:
\* onBranch(id, textSelection), then setTextSelection(null) in the node
BranchButton(n) ==
  /\ NoPendingResume
  /\ HasNode(sessions, activeSessionId, n)
  /\ \E s \in ui.nodeTextSelection :
       /\ s.nodeId = n
       /\ ui' = [ui EXCEPT !.branchInputPosition = ScreenCenter,
                           !.selectedNodeId = n,
                           !.showBranchInput = TRUE,
                           !.textSelection = Quoted(s),
                           !.nodeTextSelection = @ \ {s}]
  /\ UNCHANGED <<sessions, activeSessionId, streamingState, nextId, made, flows>>
  /\ UNCHANGED <<activeNodeId, textSelection, storage>>

\* handleBranchRequest(n) called with no selection argument
HandleBranchRequestBare(n) ==
  /\ NoPendingResume
  /\ HasNode(sessions, activeSessionId, n)
  /\ ui' = [ui EXCEPT !.branchInputPosition = ScreenCenter,
                      !.selectedNodeId = n,
                      !.showBranchInput = TRUE]
  /\ UNCHANGED <<sessions, activeSessionId, streamingState, nextId, made, flows>>
  /\ UNCHANGED <<activeNodeId, textSelection, storage>>

\* One session in which text of the responses is selected and branches are asked for
SelectNext ==
  \/ /\ made.nodes < MaxNodes
     /\ \E m \in UserInputs : Truthy(Trim(m)) /\ CreateContextualNode(m, Null, Undefined, Null)
     /\ UNCHANGED hist
  \/ \E id \in ActiveNodeIds, t \in AnswerTexts :
       /\ GetNode(sessions, activeSessionId, id).currentExchange.aiResponse = <<>>
       /\ UpdateNode(id, t)
       /\ UNCHANGED hist
  \/ HandleSelectionClear /\ UNCHANGED hist
  \/ \E n \in ActiveNodeIds, i \in 0..MaxTextLen, j \in 0..MaxTextLen, inside \in BOOLEAN :
       SelectText(n, i, j, inside) /\ UNCHANGED hist
  \/ \E n \in ActiveNodeIds :
       BranchButton(n) /\ asked' = "quoted" /\ UNCHANGED <<gone, born, last, course>>
  \/ \E n \in ActiveNodeIds :
       HandleBranchRequestBare(n) /\ asked' = "bare" /\ UNCHANGED <<gone, born, last, course>>
  \/ HandleBranchCancel /\ asked' = "closed" /\ UNCHANGED <<gone, born, last, course>>
  \/ KeyEscape /\ asked' = "closed" /\ UNCHANGED <<gone, born, last, course>>
  \/ /\ made.nodes < MaxChainNodes
     /\ \E f \in FlowIds, m \in UserInputs :
          HandleBranchSubmit(f, m) /\ asked' = "closed" /\ UNCHANGED <<gone, born, last, course>>

SelectSpec == ChainInit /\ [][SelectNext]_vars

\* ------------------------------------------------------ loading the store
\* the schema versions found in the stored item: older, current, newer
StoredVersions == (Version - 1)..(Version + 1)

\* the states found in the stored item: the empty one, and one session with a node that
\* is the active node, being streamed into, and holding the selection
StoredStates ==
  { EmptyState,
    StoreState(CreateContextualNodeIn(<<NewSession(1)>>, 1, 2, <<"h", "i">>,
                                      Null, Undefined, Null),
               1, 2, [StartedStreaming(2) EXCEPT !.currentText = <<"b">>],
               [nodeId |-> 2, selectedText |-> <<"q">>]) }

\* localStorage when the page is opened: no item, or an item some build has written
InitialStorage ==
  { <<>> } \cup { << [version |-> v, state |-> st] >> : v \in StoredVersions, st \in StoredStates }

\* selections a caller passes to setTextSelection
SelectionArgs ==
  { NoSelection } \cup { [nodeId |-> id, selectedText |-> <<"q">>] : id \in ActiveNodeIds }

\* the store as persist has hydrated it from the stored item when the page is opened
LoadInit ==
  /\ storage \in InitialStorage
  /\ sessions = Hydrate(storage).sessions
  /\ activeSessionId = Hydrate(storage).activeSessionId
  /\ activeNodeId = Hydrate(storage).activeNodeId
  /\ streamingState = Hydrate(storage).streamingState
  /\ textSelection = Hydrate(storage).textSelection
  /\ nextId = 3
  /\ made = [sessions |-> 1, nodes |-> 1, edges |-> 0]
  /\ flows = [f \in FlowIds |-> NoFlow]
  /\ ui = NoUi
  /\ gone = {}
  /\ born = <<>>
  /\ last = <<>>
  /\ asked = "closed"
  /\ course = "none"

\* the page is loaded again: the store is built anew and hydrated from the stored item
Reload ==
  /\ sessions' = Hydrate(storage).sessions
  /\ activeSessionId' = Hydrate(storage).activeSessionId
  /\ activeNodeId' = Hydrate(storage).activeNodeId
  /\ streamingState' = Hydrate(storage).streamingState
  /\ textSelection' = Hydrate(storage).textSelection
  /\ flows' = [f \in FlowIds |-> NoFlow]
  /\ ui' = NoUi
  /\ UNCHANGED <<storage, nextId, made>>

\* The store between page loads
LoadNext ==
  \/ Reload /\ UNCHANGED hist
  \/ CreateSession /\ UNCHANGED hist
  \/ /\ made.nodes < MaxNodes
     /\ \E m \in UserInputs : CreateContextualNode(m, Null, Undefined, Null)
     /\ UNCHANGED hist
  \/ \E id \in ActiveNodeIds : SetActiveNode(id) /\ UNCHANGED hist
  \/ \E id \in ActiveNodeIds : StartStreaming(id) /\ UNCHANGED hist
  \/ \E t \in BufferTexts : UpdateStreamingText(t) /\ UNCHANGED hist
  \/ \E sel \in SelectionArgs : SetTextSelection(sel) /\ UNCHANGED hist
  \/ OpenMainInput /\ UNCHANGED hist
  \/ /\ made.nodes < MaxNodes
     /\ \E f \in FlowIds, m \in UserInputs : HandleMainInputSubmit(f, m)
     /\ UNCHANGED hist

LoadSpec == LoadInit /\ [][LoadNext]_vars

\* ------------------------------------------------------ mounting the application
\* the effects React has scheduled after the first render and not run yet, each with the
\* sessions.length its component read when it rendered
MountEffects ==
  { [of |-> "App", seen |-> Len(sessions)], [of |-> "Canvas", seen |-> Len(sessions)] }

\* first load: nothing is stored, the components have rendered, no effect has run
MountInit ==
  /\ sessions = <<>>
  /\ activeSessionId = Null
  /\ activeNodeId = Null
  /\ streamingState = IdleStreaming
  /\ textSelection = NoSelection
  /\ storage = <<>>
  /\ nextId = 1
  /\ made = [sessions |-> 0, nodes |-> 0, edges |-> 0]
  /\ flows = [f \in FlowIds |-> NoFlow]
  /\ ui = [NoUi EXCEPT !.effects = MountEffects]
  /\ gone = {}
  /\ born = <<>>
  /\ last = <<>>
  /\ asked = "closed"
  /\ course = "none"

\* an effect calling createSession(title), or doing nothing to the store
EffectRuns(e, creates) ==
  /\ e \in ui.effects
  /\ ui' = [ui EXCEPT !.effects = @ \ {e}]
  /\ UNCHANGED <<activeNodeId, streamingState, textSelection, flows>>
  /\ IF creates
     THEN /\ sessions' = Append(sessions, NewSession(nextId))
          /\ activeSessionId' = nextId
          /\ nextId' = nextId + 1
          /\ made' = [made EXCEPT !.sessions = @ + 1]
          /\ Save
     ELSE UNCHANGED <<sessions, activeSessionId, nextId, made, storage>>

\* the effect of AppContent: createSession when the sessions it rendered with are none
AppEffect ==
  \E e \in ui.effects : e.of = "App" /\ EffectRuns(e, e.seen = 0)

\* the sync effect of ConversationCanvasInner: createSession when getActiveSession()
\* finds no session in the store, else the copy of the canvas into React Flow
CanvasEffect ==
  \E e \in ui.effects :
    e.of = "Canvas" /\ EffectRuns(e, ~HasActiveSession(sessions, activeSessionId))

\* The application from its first render on: the two effects, then the main input
MountNext ==
  \/ AppEffect /\ UNCHANGED hist
  \/ CanvasEffect /\ UNCHANGED hist
  \/ ui.effects = {} /\ OpenMainInput /\ UNCHANGED hist
  \/ /\ ui.effects = {}
     /\ made.nodes < MaxNodes
     /\ \E f \in FlowIds, m \in UserInputs : HandleMainInputSubmit(f, m)
     /\ UNCHANGED hist
  \/ \E f \in FlowIds, c \in Chunks : StreamChunk(f, c) /\ UNCHANGED hist
  \/ \E f \in FlowIds : StreamEnd(f) /\ UNCHANGED hist
  \/ \E f \in FlowIds : HandlerResume(f) /\ UNCHANGED hist

MountSpec == MountInit /\ [][MountNext]_vars

\* ------------------------------------------------------------------ claims
EdgeSet(canvas) == { canvas.edges[k] : k \in 1..Len(canvas.edges) }
NodeIdSet(canvas) == { canvas.nodes[k].id : k \in 1..Len(canvas.nodes) }
ActiveIndex == FindSessionIndex(sessions, activeSessionId)

\* C8 as claimed, for a call made with a valid active session: with a parent and a
\* non-empty quotedText exactly one edge parent->child typed 'branch' is added and both
\* branch counters grow by 1; with a parent and no quotedText exactly one 'default'
\* edge is added, the branch counters stay and nodeCount grows by 1; with no parent
\* no edge is added.
C8_CreateEffect(parentNodeId, quotedText) ==
  LET i == ActiveIndex
      c == sessions[i].canvas
      c2 == sessions'[i].canvas
  IN  IF parentNodeId # Null
      THEN /\ Len(c2.edges) = Len(c.edges) + 1
           /\ SubSeq(c2.edges, 1, Len(c.edges)) = c.edges
           /\ c2.edges[Len(c2.edges)].source = parentNodeId
           /\ c2.edges[Len(c2.edges)].target = nextId
           /\ IF Truthy(quotedText)
              THEN /\ c2.edges[Len(c2.edges)].type = "branch"
                   /\ c2.metadata.branchCount = c.metadata.branchCount + 1
                   /\ sessions'[i].metadata.branchCount = sessions[i].metadata.branchCount + 1
              ELSE /\ c2.edges[Len(c2.edges)].type = "default"
                   /\ c2.metadata.branchCount = c.metadata.branchCount
                   /\ sessions'[i].metadata.branchCount = sessions[i].metadata.branchCount
                   /\ c2.metadata.nodeCount = c.metadata.nodeCount + 1
      ELSE c2.edges = c.edges

C8_AsClaimed ==
  [][\A m \in UserInputs, p \in NodeIdArgs \cup {Null}, q \in QuoteInputs :
       (CreateContextualNode(m, p, q, SourceArg(p, q)) /\ ActiveIndex # 0)
         => C8_CreateEffect(p, q)]_vars

\* C9: after removeNode(id) on the active canvas no edge with source = id or
\* target = id remains and every other edge remains, in the order it had; and no
\* branch counter of a canvas or of a session is ever below zero.
C9_RemoveEffect(id) ==
  LET i == ActiveIndex
      c == sessions[i].canvas
      c2 == sessions'[i].canvas
  IN  /\ \A e \in EdgeSet(c2) : e.source # id /\ e.target # id
      /\ EdgeSet(c2) = { e \in EdgeSet(c) : e.source # id /\ e.target # id }
      /\ Len(c2.edges) = Cardinality(EdgeSet(c2))

C9_BranchCountsNotNegative ==
  \A i \in 1..Len(sessions) :
    /\ sessions[i].canvas.metadata.branchCount >= 0
    /\ sessions[i].metadata.branchCount >= 0

C9_RemoveNodeEdges ==
  /\ [][\A id \in NodeIdArgs :
          (RemoveNode(id) /\ ActiveIndex # 0) => C9_RemoveEffect(id)]_vars
  /\ []C9_BranchCountsNotNegative

\* removeNode removed a node with its edges from a canvas that keeps another edge,
\* and a branch edge was counted
C9_Witness ==
  /\ gone # {}
  /\ ActiveIndex # 0
  /\ sessions[ActiveIndex].canvas.edges # <<>>
  /\ sessions[ActiveIndex].metadata.branchCount > 0

\* C10 as claimed: every edge of a canvas has a source and a target that are ids of
\* nodes of the same canvas.
C10_AsClaimed ==
  \A i \in 1..Len(sessions) :
    \A e \in EdgeSet(sessions[i].canvas) :
      /\ e.source \in NodeIdSet(sessions[i].canvas)
      /\ e.target \in NodeIdSet(sessions[i].canvas)

\* a thread a -> b -> c grown in the active session: a created with no parent, b with
\* parent a, c with parent b, each parent being in the canvas when its child was made
Chain(a, b, c) ==
  /\ born[a].parent = Null /\ born[a].session = activeSessionId
  /\ born[b].parent = a /\ born[b].found /\ born[b].session = activeSessionId
  /\ born[c].parent = b /\ born[c].found /\ born[c].session = activeSessionId
  /\ HasNode(sessions, activeSessionId, c)

\* the turns of an exchange: the user turn, then the assistant turn, each present
\* when its text is not empty
Turns(ex) ==
  (IF Truthy(ex.userMessage) THEN <<UserTurn(ex)>> ELSE <<>>)
    \o (IF Truthy(ex.aiResponse) THEN <<AssistantTurn(ex)>> ELSE <<>>)

\* C1 as claimed: once the responses of a, b and c have been committed,
\* getNodeConversation(c) is [a.user, a.assistant, b.user, b.assistant, c.user,
\* c.assistant], also after a or b was removed.
C1_AsClaimed ==
  \A a \in DOMAIN born, b \in DOMAIN born, c \in DOMAIN born :
    ( /\ Chain(a, b, c)
      /\ Truthy(last[a].aiResponse)
      /\ Truthy(last[b].aiResponse)
      /\ Truthy(last[c].aiResponse) )
    => GetNodeConversation(sessions, activeSessionId, c) =
         << UserTurn(last[a]), AssistantTurn(last[a]),
            UserTurn(last[b]), AssistantTurn(last[b]),
            UserTurn(last[c]), AssistantTurn(last[c]) >>

\* C1 amended: getNodeConversation(c) is a's exchange as it stood when b was created,
\* then b's exchange as it stood when c was created, then c's own exchange as it
\* stands, also after a or b was removed; it is the six turns of the claim when a's
\* response had been committed before b was created and b's before c was created.
C1_SnapshotChain ==
  \A a \in DOMAIN born, b \in DOMAIN born, c \in DOMAIN born :
    Chain(a, b, c) =>
      /\ GetNodeConversation(sessions, activeSessionId, c) =
           Turns(born[b].pex) \o Turns(born[c].pex)
             \o Turns(GetNode(sessions, activeSessionId, c).currentExchange)
      /\ ( /\ Truthy(born[b].pex.userMessage) /\ Truthy(born[b].pex.aiResponse)
           /\ Truthy(born[c].pex.userMessage) /\ Truthy(born[c].pex.aiResponse)
           /\ Truthy(last[c].userMessage) /\ Truthy(last[c].aiResponse) )
         => GetNodeConversation(sessions, activeSessionId, c) =
              << UserTurn(born[b].pex), AssistantTurn(born[b].pex),
                 UserTurn(born[c].pex), AssistantTurn(born[c].pex),
                 UserTurn(last[c]), AssistantTurn(last[c]) >>

\* a thread of three answered exchanges whose root was removed afterwards
C1_Witness ==
  \E a \in DOMAIN born, b \in DOMAIN born, c \in DOMAIN born :
    /\ Chain(a, b, c)
    /\ Len(GetNodeConversation(sessions, activeSessionId, c)) = 6
    /\ ~HasNode(sessions, activeSessionId, a)
    /\ born[b].pex.aiResponse # born[c].pex.aiResponse

\* C2: the inherited history of a node is a frozen snapshot: no step of the store
\* (updateNode on an ancestor, the commit of an ancestor's response by finishStreaming,
\* removeNode of an ancestor, removeEdge, the streaming operations, a change of the
\* active session) changes the messages of a node that exists before and after it.
C2_FrozenHistory ==
  [][\A n \in AllNodes(sessions) : \A n2 \in AllNodes(sessions') :
       n2.id = n.id => n2.messages = n.messages]_vars

\* a child that inherited its parent's user turn before finishStreaming committed the
\* parent's response, the streaming state being idle again
C2_Witness ==
  \E a \in AllNodes(sessions), b \in AllNodes(sessions) :
    /\ b.parentId = a.id
    /\ b.messages = <<UserTurn(a.currentExchange)>>
    /\ a.currentExchange.aiResponse = <<"b">>
    /\ streamingState = IdleStreaming

\* the concatenation of the chunks of a stream, in the order received
RECURSIVE Flatten(_)
Flatten(chunks) ==
  IF chunks = <<>> THEN <<>> ELSE Head(chunks) \o Flatten(Tail(chunks))

\* C3: when streamMessage has run startStreaming(n), a non-empty sequence of chunks and
\* finishStreaming() for a node n of the active canvas, with no other store call in
\* between, n.currentExchange.aiResponse is the concatenation of the chunks in the
\* order received and streamingState is {isStreaming: false, currentText: '', nodeId:
\* null}.
C3_StreamCommits ==
  \A f \in FlowIds :
    ( /\ flows[f].pc = "returned"
      /\ flows[f].alone
      /\ flows[f].chunks # <<>>
      /\ HasNode(sessions, activeSessionId, flows[f].nodeId) )
    => /\ GetNode(sessions, activeSessionId, flows[f].nodeId).currentExchange.aiResponse
            = Flatten(flows[f].chunks)
       /\ streamingState = IdleStreaming

\* a stream of two different chunks has just been finished for a node of the canvas
C3_Witness ==
  \E f \in FlowIds :
    /\ flows[f].pc = "returned"
    /\ flows[f].alone
    /\ flows[f].chunks = << <<"y", " ">>, <<"x">> >>
    /\ HasNode(sessions, activeSessionId, flows[f].nodeId)

\* C4 as claimed: startStreaming(x) called while the streaming state is active for
\* another node y of the active canvas with a non-empty buffer commits the buffer into
\* y.currentExchange.aiResponse and makes x the streaming node with an empty buffer.
C4_AsClaimed ==
  [][\A x \in NodeIdArgs :
       ( /\ StartStreaming(x)
         /\ streamingState.isStreaming
         /\ streamingState.nodeId # x
         /\ Truthy(streamingState.currentText)
         /\ HasNode(sessions, activeSessionId, streamingState.nodeId) )
       => /\ GetNode(sessions', activeSessionId', streamingState.nodeId)
               .currentExchange.aiResponse = streamingState.currentText
          /\ streamingState' = StartedStreaming(x)]_vars

\* the texts a stream can have produced so far: the concatenations of its chunks
Produced(chunks) == { Flatten(SubSeq(chunks, 1, k)) : k \in 0..Len(chunks) }

\* C5 as claimed: streams are not interleaved: the streaming buffer of a node holds
\* only text produced by the stream of that node, and so does the response of a node
\* while the flow of the node keeps its chunks.
C5_AsClaimed ==
  \A f \in FlowIds :
    flows[f].pc \in {"streaming", "returned"} =>
      /\ streamingState.nodeId = flows[f].nodeId
           => streamingState.currentText \in Produced(flows[f].chunks)
      /\ HasNode(sessions, activeSessionId, flows[f].nodeId)
           => GetNode(sessions, activeSessionId, flows[f].nodeId).currentExchange.aiResponse
                \in Produced(flows[f].chunks)

\* the text a failed generation must leave in its node
ErrorText == <<"E", "r", "r", "o", "r">>

\* C6 as claimed: when a flow whose service failed has ended, its node, if it is still
\* in the active canvas, holds a non-empty response carrying the error message.
C6_AsClaimed ==
  \A f \in FlowIds :
    ( /\ flows[f].pc = "done"
      /\ flows[f].failed
      /\ HasNode(sessions, activeSessionId, flows[f].nodeId) )
    => LET r == GetNode(sessions, activeSessionId, flows[f].nodeId).currentExchange.aiResponse
       IN  /\ Truthy(r)
           /\ SubSeq(r, 1, Len(ErrorText)) = ErrorText

\* C7: under a service that ends or fails every stream and a fair event loop, whenever
\* streamingState.isStreaming is true it is eventually false again, also when a second
\* generation is started, the target node is removed or the active session changes
\* while the stream runs.
C7_NeverStuck ==
  streamingState.isStreaming ~> ~streamingState.isStreaming

\* two generations that overlapped have both ended, the node of one of them is no
\* longer in the active canvas, and the streaming state is idle
C7_Witness ==
  /\ \A f \in FlowIds : flows[f].pc = "done"
  /\ \E f \in FlowIds : ~HasNode(sessions, activeSessionId, flows[f].nodeId)
  /\ \E f \in FlowIds : HasNode(sessions, activeSessionId, flows[f].nodeId)
  /\ ~streamingState.isStreaming

C12_Counted(session) ==
  << session.canvas.nodes, session.canvas.edges, session.canvas.metadata.nodeCount,
     session.canvas.metadata.branchCount, session.metadata.totalMessages,
     session.metadata.branchCount >>

\* C12 as claimed: with a valid active session, updateNode and removeNode with an id
\* that is no node of the active canvas and removeEdge with an id that is no edge of it
\* leave the canvas's nodes, edges, nodeCount and branchCount and the session's
\* totalMessages and branchCount unchanged.
C12_AsClaimed ==
  [][HasActiveSession(sessions, activeSessionId) =>
       ( ( \/ \E id \in NodeIdArgs \ ActiveNodeIds, t \in ApiTexts : UpdateNode(id, t)
           \/ \E id \in NodeIdArgs \ ActiveNodeIds : RemoveNode(id)
           \/ \E id \in EdgeIdArgs \ { e.id : e \in EdgeSet(sessions[ActiveIndex].canvas) } :
                RemoveEdge(id) )
         => C12_Counted(sessions'[ActiveIndex]) = C12_Counted(sessions[ActiveIndex]) )]_vars

\* C13: deleteSession(id) removes the session with that id and no other; when id was
\* the active session, activeSessionId becomes null and getActiveSession and
\* getActiveCanvas return null afterwards; otherwise activeSessionId is unchanged.
C13_DeleteSession ==
  [][\A id \in SessionIdArgs :
       DeleteSession(id) =>
         /\ \A i \in 1..Len(sessions') : sessions'[i].id # id
         /\ Len(sessions') =
              Cardinality({ i \in 1..Len(sessions) : sessions[i].id # id })
         /\ \A i \in 1..Len(sessions), j \in 1..Len(sessions) :
              (i < j /\ sessions[i].id # id /\ sessions[j].id # id) =>
                \E k \in 1..Len(sessions'), l \in 1..Len(sessions') :
                  k < l /\ sessions'[k] = sessions[i] /\ sessions'[l] = sessions[j]
         /\ \A i \in 1..Len(sessions) :
              sessions[i].id # id => \E k \in 1..Len(sessions') : sessions'[k] = sessions[i]
         /\ IF activeSessionId = id
            THEN /\ activeSessionId' = Null
                 /\ GetActiveSession(sessions', activeSessionId') = Null
                 /\ GetActiveCanvasOrNull(sessions', activeSessionId') = Null
            ELSE activeSessionId' = activeSessionId]_vars

\* the active one of two sessions was deleted: the other one is left, none is active
C13_Witness ==
  /\ made.sessions = 2
  /\ Len(sessions) = 1
  /\ activeSessionId = Null

\* C14: updateStreamingText changes only streamingState.currentText: sessions (so the
\* aiResponse of the streaming node), activeSessionId, activeNodeId and the rest of
\* streamingState are unchanged by it; and a step that changes the aiResponse of a
\* node is a finishStreaming or an updateNode.
C14_BufferOnly ==
  /\ [][\A t \in BufferTexts :
          UpdateStreamingText(t) =>
            /\ sessions' = sessions
            /\ activeSessionId' = activeSessionId
            /\ activeNodeId' = activeNodeId
            /\ streamingState'.isStreaming = streamingState.isStreaming
            /\ streamingState'.nodeId = streamingState.nodeId
            /\ streamingState'.currentText = t]_vars
  /\ [][\/ sessions' = sessions
        \/ \A n \in AllNodes(sessions), n2 \in AllNodes(sessions') :
             (n2.id = n.id /\ n2.currentExchange.aiResponse # n.currentExchange.aiResponse)
               => \/ FinishStreaming
                  \/ \E id \in NodeIdArgs, t \in StreamResponses : UpdateNode(id, t)]_vars

\* a stream is active for a node of the canvas, its buffer holds text, the node has no
\* response yet, and a node is the active node
C14_Witness ==
  /\ streamingState.isStreaming
  /\ Truthy(streamingState.currentText)
  /\ HasNode(sessions, activeSessionId, streamingState.nodeId)
  /\ GetNode(sessions, activeSessionId, streamingState.nodeId).currentExchange.aiResponse = <<>>
  /\ activeNodeId # Null

\* ------------------------------------------------------------------ C15
\* the stored aiResponse of node id, wherever the node is; Undefined when there is none
StoredResponse(ss, id) ==
  IF \E n \in AllNodes(ss) : n.id = id
  THEN (CHOOSE n \in AllNodes(ss) : n.id = id).currentExchange.aiResponse
  ELSE Undefined

\* C15: finishStreaming always leaves streamingState idle (isStreaming false,
\* currentText empty, nodeId null); when the buffer is non-empty and the target is a node
\* of the active canvas, the target's aiResponse becomes the buffer and no other node
\* changes; when the buffer is empty, nodeId is null or the target is not in the active
\* canvas, no node is modified.
C15_FinishStreaming ==
  [][FinishStreaming =>
       /\ streamingState' = [isStreaming |-> FALSE, currentText |-> <<>>, nodeId |-> Null]
       /\ IF /\ streamingState.nodeId # Null
             /\ Truthy(streamingState.currentText)
             /\ streamingState.nodeId \in ActiveNodeIds
          THEN /\ StoredResponse(sessions', streamingState.nodeId) = streamingState.currentText
               /\ \A n \in AllNodes(sessions) :
                    n.id # streamingState.nodeId => n \in AllNodes(sessions')
               /\ { n.id : n \in AllNodes(sessions') } = { n.id : n \in AllNodes(sessions) }
          ELSE sessions' = sessions]_vars

\* C15 witness: the streaming state is idle again and a node of the active canvas holds
\* the buffer text "b", which only finishStreaming writes into a node
C15_Witness ==
  /\ streamingState = IdleStreaming
  /\ \E id \in ActiveNodeIds : StoredResponse(sessions, id) = <<"b">>

\* C15 as claimed: whenever the buffer is non-empty and nodeId names a stored node,
\* finishStreaming commits the buffer into that node's aiResponse.
C15_AsClaimed ==
  [][( /\ FinishStreaming
       /\ streamingState.nodeId # Null
       /\ Truthy(streamingState.currentText)
       /\ \E n \in AllNodes(sessions) : n.id = streamingState.nodeId )
     => StoredResponse(sessions', streamingState.nodeId) = streamingState.currentText]_vars

\* ------------------------------------------------------------------ C16
\* C16 as claimed: for every node n of the active canvas getNodeConversation(n) is n's
\* inherited history, then n's user turn, then n's assistant turn unless n's aiResponse
\* is empty; and the inherited history is empty when n has no parent.
C16_AsClaimed ==
  \A id \in ActiveNodeIds :
    LET n == GetNode(sessions, activeSessionId, id)
    IN  /\ GetNodeConversation(sessions, activeSessionId, id) =
             GetNodeHistory(sessions, activeSessionId, id)
               \o <<UserTurn(n.currentExchange)>>
               \o (IF Truthy(n.currentExchange.aiResponse)
                   THEN <<AssistantTurn(n.currentExchange)>> ELSE <<>>)
        /\ n.parentId = Null => GetNodeHistory(sessions, activeSessionId, id) = <<>>

\* ------------------------------------------------------------------ C17
\* C17 as claimed: no node whose currentExchange.userMessage is empty is ever in a
\* canvas, a message that is empty after trimming being rejected before any store
\* mutation.
C17_AsClaimed ==
  \A n \in AllNodes(sessions) : n.currentExchange.userMessage # <<>>

\* ------------------------------------------------------------------ C18
\* what the claim asks of the state loaded from a stored item
C18_Restored(item, loaded) ==
  /\ item.version < 4 =>
       loaded = [sessions |-> <<>>, activeSessionId |-> Null, activeNodeId |-> Null,
                 streamingState |-> [isStreaming |-> FALSE, currentText |-> <<>>,
                                     nodeId |-> Null],
                 textSelection |-> NoSelection]
  /\ item.version = 4 => loaded = item.state

\* C18: when the page is loaded and the stored item has a schema version lower than 4,
\* the store starts from the empty state (sessions = [], activeSessionId = null,
\* activeNodeId = null, idle streamingState, textSelection = null), nothing of the stored
\* state being carried over; when the stored item has version 4, the five fields of the
\* store are the stored ones.
C18_Load ==
  /\ storage # <<>> =>
       C18_Restored(storage[1], StoreState(sessions, activeSessionId, activeNodeId,
                                           streamingState, textSelection))
  /\ [][(Reload /\ storage # <<>>) =>
          C18_Restored(storage[1], StoreState(sessions', activeSessionId', activeNodeId',
                                              streamingState', textSelection'))]_vars

\* C18 witness: the stored item is of an older version and holds a session, and the
\* loaded store is empty
C18_Witness ==
  /\ storage # <<>>
  /\ storage[1].version < Version
  /\ storage[1].state.sessions # <<>>
  /\ sessions = <<>> /\ activeSessionId = Null /\ activeNodeId = Null
  /\ streamingState = IdleStreaming /\ textSelection = NoSelection

\* ------------------------------------------------------------------ C19
\* C19 as claimed: for every response text T and every non-collapsed selection made in
\* it, the TextSelection handleTextSelection computes has
\* T.substring(startIndex, endIndex) = selectedText, ranges that begin or end with
\* whitespace included.
C19_AsClaimed ==
  [][\A n \in ActiveNodeIds, i \in 0..MaxTextLen, j \in 0..MaxTextLen :
       (SelectText(n, i, j, TRUE) /\ i < j)
         => \A s \in ui'.nodeTextSelection :
              s.nodeId = n =>
                Substring(Displayed(n), s.startIndex, s.endIndex) = s.selectedText]_vars

\* ------------------------------------------------------------------ C20
\* C20 as claimed: a collapsed, a whitespace-only or an outside selection leaves the
\* node without selection state and does not reach the canvas; and the node made from a
\* branch request that carried no selection has no quotedText and hangs on a 'default'
\* edge.
C20_AsClaimed ==
  /\ [][\A n \in ActiveNodeIds, i \in 0..MaxTextLen, j \in 0..MaxTextLen, inside \in BOOLEAN :
          ( /\ SelectText(n, i, j, inside)
            /\ \/ i = j
               \/ Trim(Substring(Selectable(n, inside), i, j)) = <<>>
               \/ ~inside )
          => /\ \A s \in ui'.nodeTextSelection : s.nodeId # n
             /\ ui'.textSelection = ui.textSelection]_vars
  /\ [][\A f \in FlowIds, m \in UserInputs :
          (HandleBranchSubmit(f, m) /\ asked = "bare")
          => /\ GetNode(sessions', activeSessionId', nextId).currentExchange.quotedText
                  = Undefined
             /\ \A e \in EdgeSet(GetActiveCanvas(sessions', activeSessionId')) :
                  e.target = nextId => e.type = "default"]_vars

\* ------------------------------------------------------------------ C21
\* C21 as claimed: after any sequence of createContextualNode, removeNode and removeEdge
\* the canvas's metadata.branchCount is the number of 'branch' edges of the canvas.
C21_AsClaimed ==
  \A i \in 1..Len(sessions) :
    sessions[i].canvas.metadata.branchCount =
      Cardinality({ k \in 1..Len(sessions[i].canvas.edges) :
                      sessions[i].canvas.edges[k].type = "branch" })

\* ------------------------------------------------------------------ C22
\* the ids reached from id n along at most k edges of the set E, one edge at least
RECURSIVE Reached(_, _, _)
Reached(E, n, k) ==
  IF k = 0 THEN {}
  ELSE LET near == { e.target : e \in { x \in E : x.source = n } }
       IN  near \cup UNION { Reached(E, m, k - 1) : m \in near }

\* C22: in every canvas built by createContextualNode, removeNode and removeEdge, every
\* node is the target of at most one edge, and no node is reached from itself along the
\* edges: the graph is a forest.
C22_Forest ==
  \A i \in 1..Len(sessions) :
    LET canvas == sessions[i].canvas
    IN  \A n \in NodeIdSet(canvas) :
          /\ \A k1 \in 1..Len(canvas.edges), k2 \in 1..Len(canvas.edges) :
               (canvas.edges[k1].target = n /\ canvas.edges[k2].target = n) => k1 = k2
          /\ n \notin Reached(EdgeSet(canvas), n, Len(canvas.edges))

\* C22 witness: a canvas with two nodes, one the parent of the other by an edge
C22_Witness ==
  \E i \in 1..Len(sessions) :
    \E e \in EdgeSet(sessions[i].canvas) :
      /\ e.source \in NodeIdSet(sessions[i].canvas)
      /\ e.target \in NodeIdSet(sessions[i].canvas)
      /\ e.source # e.target

\* ------------------------------------------------------------------ C23
\* C23 as claimed: across the submit flows the aiResponse of a node is set once: once it
\* holds a text it is never overwritten or emptied.
C23_AsClaimed ==
  [][\/ sessions' = sessions
     \/ \A n \in AllNodes(sessions), n2 \in AllNodes(sessions') :
          (n2.id = n.id /\ Truthy(n.currentExchange.aiResponse))
            => n2.currentExchange.aiResponse = n.currentExchange.aiResponse]_vars

\* ------------------------------------------------------------------ C24
\* C24 as claimed: streamingState and textSelection are not persisted: after the store is
\* loaded from the stored item, whenever the item was written, streamingState is idle
\* and textSelection is null.
C24_AsClaimed ==
  [][Reload => /\ streamingState' = IdleStreaming
               /\ textSelection' = NoSelection]_vars

\* ------------------------------------------------------------------ C25
\* C25 as claimed: the canvas's textSelection is null after handleBranchSubmit, after the
\* cancel button, after Escape handled by the window keydown listener while the branch
\* input is open, and after the DOM selection has become collapsed.
C25_AsClaimed ==
  [][( \/ \E f \in FlowIds, m \in UserInputs : HandleBranchSubmit(f, m)
       \/ HandleBranchCancel
       \/ (KeyEscape /\ ui.showBranchInput)
       \/ HandleSelectionClear )
     => ui'.textSelection = NoSelection]_vars

\* ------------------------------------------------------------------ C26
\* the ancestors of node id in the active canvas: its parent, the parent's parent, ...,
\* followed for at most k steps
RECURSIVE AncestorIds(_, _, _, _)
AncestorIds(ss, active, id, k) ==
  IF k = 0 \/ ~HasNode(ss, active, id) THEN {}
  ELSE LET p == GetNode(ss, active, id).parentId
       IN  IF p = Null THEN {} ELSE {p} \cup AncestorIds(ss, active, p, k - 1)

\* C26 as claimed: the node handleBranchSubmit creates with a quotedText has a
\* sourceNodeId that is its parent or another of its ancestors, whatever text-selection
\* and branch-request events came before the submit.
C26_AsClaimed ==
  [][\A f \in FlowIds, m \in UserInputs :
       ( /\ HandleBranchSubmit(f, m)
         /\ Truthy(GetNode(sessions', activeSessionId', nextId).currentExchange.quotedText) )
       => GetNode(sessions', activeSessionId', nextId).currentExchange.sourceNodeId
            \in AncestorIds(sessions', activeSessionId', nextId, MaxChainNodes)]_vars

\* ------------------------------------------------------------------ C27
\* C27 as claimed: on first load with nothing stored, once the effect of App and the
\* effect of ConversationCanvas have run, the store holds exactly one session and that
\* session is the active one.
C27_AsClaimed ==
  ui.effects = {} =>
    /\ Len(sessions) = 1
    /\ activeSessionId = sessions[1].id

\* ------------------------------------------------------------------ C28
\* C28 as claimed: in every reachable state isStreaming is true if and only if nodeId is
\* not null, and currentText is empty whenever isStreaming is false.
C28_AsClaimed ==
  /\ streamingState.isStreaming <=> streamingState.nodeId # Null
  /\ ~streamingState.isStreaming => streamingState.currentText = <<>>

\* C29 (as stated): every id returned by createContextualNode names a node of
\* the active canvas right after the call, carrying the (trimmed) user message
C29_AsClaimed ==
  [][\A m \in UserInputs, p \in NodeIdArgs \cup {Null}, q \in QuoteInputs :
       CreateContextualNode(m, p, q, SourceArg(p, q)) =>
         /\ HasNode(sessions', activeSessionId', nextId)
         /\ GetNode(sessions', activeSessionId', nextId).currentExchange.userMessage
              = Trim(m)]_vars

\* C29: while a valid session is active, the id returned by createContextualNode
\* names a node of the active canvas right after the call and that node
\* carries the trimmed user message; with no valid active session the call
\* returns a fresh id, creates nothing, and getNode of that id finds no node
C29_CreateContextualNode ==
  [][\A m \in UserInputs, p \in NodeIdArgs \cup {Null}, q \in QuoteInputs :
       CreateContextualNode(m, p, q, SourceArg(p, q)) =>
         IF HasActiveSession(sessions, activeSessionId)
         THEN /\ HasNode(sessions', activeSessionId', nextId)
              /\ GetNode(sessions', activeSessionId', nextId).currentExchange.userMessage
                   = Trim(m)
              /\ \A n \in AllNodes(sessions) : n.id # nextId
         ELSE /\ sessions' = sessions
              /\ ~HasNode(sessions', activeSessionId', nextId)]_vars

\* C29 witness: a child created under a parent is in the active canvas with
\* the trimmed message
C29_Witness ==
  /\ HasActiveSession(sessions, activeSessionId)
  /\ \E k \in 1..Len(GetActiveCanvas(sessions, activeSessionId).nodes) :
       LET n == GetActiveCanvas(sessions, activeSessionId).nodes[k]
       IN  /\ n.parentId # Null
           /\ n.currentExchange.userMessage = <<"h", "i">>

\* ------------------------------------------------------------------ C30
\* finishStreaming leaves every node but its target and every session but the
\* active one as they were
C30_OnlyTarget ==
  /\ \A n \in AllNodes(sessions) :
       n.id # streamingState.nodeId => n \in AllNodes(sessions')
  /\ Len(sessions') = Len(sessions)
  /\ \A i \in 1..Len(sessions) :
       sessions[i].id # activeSessionId => sessions'[i] = sessions[i]

\* C30 (as stated): finishStreaming modifies no node but its target and no
\* session but the active one, and once the active session was changed or the
\* target was removed between startStreaming(n) and finishStreaming() it
\* modifies no node at all and discards the buffer
C30_AsClaimed ==
  [][FinishStreaming =>
       /\ C30_OnlyTarget
       /\ course = "strayed" => (sessions' = sessions /\ streamingState' = IdleStreaming)]_vars

\* C30: finishStreaming modifies no node but its target and no session but the
\* active one; when at the time of the call the target is not a node of the
\* active canvas (the active session is another one or none, or the target
\* was removed) no node of any session is modified and the buffer is
\* discarded; when the active session was changed after startStreaming(n) and
\* n's session is active again at the call, a non-empty buffer is committed
\* into n
C30_FinishStreaming ==
  [][FinishStreaming =>
       /\ C30_OnlyTarget
       /\ streamingState' = IdleStreaming
       /\ streamingState.nodeId \notin ActiveNodeIds => sessions' = sessions
       /\ ( /\ course = "strayed"
            /\ Truthy(streamingState.currentText)
            /\ streamingState.nodeId \in ActiveNodeIds )
          => StoredResponse(sessions', streamingState.nodeId) = streamingState.currentText]_vars

\* C30 witness: a stream that was started for a node and had text in its buffer
\* was finished while another session was active, and no node has a response
C30_Witness ==
  /\ course = "lost"
  /\ Len(sessions) = MaxSessions
  /\ HasActiveSession(sessions, activeSessionId)
  /\ AllNodes(sessions) # {}
  /\ \A n \in AllNodes(sessions) : n.currentExchange.aiResponse = <<>>

====
